---- MODULE Spec2Model ----
(***************************************************************************)
(* Model of audio_engine.py: the bounded hand-off queue AUDIO_QUEUE, the   *)
(* driver-invoked audio_callback (producer), a consumer taking blocks from *)
(* the queue, and the start_stream / stop_stream lifecycle controller.     *)
(*                                                                         *)
(* Every queue.Queue operation (put, get_nowait, get, empty) is atomic: it *)
(* runs under the queue's mutex.  The statements between them interleave   *)
(* freely with the other execution contexts.                               *)
(*                                                                         *)
(* The driver fills indata with fresh samples before each invocation; the  *)
(* samples of invocation k are written k.  indata.copy() is the value of   *)
(* indata at the time of the copy, so a block is identified by the number  *)
(* of the invocation that copied it.  IndataRef stands for the array       *)
(* object indata itself (no copy), which reads as whatever indata holds.   *)
(***************************************************************************)
EXTENDS Naturals, Sequences, FiniteSets, TLC

\* queue.Queue(maxsize=1)
QueueMaxSize == 1

\* bound on the number of audio_callback invocations explored
MaxCallbacks == 4

VARIABLES
    AUDIO_QUEUE,     \* the blocks held by the queue, oldest first
    callback_count,  \* the module-level counter
    diag,            \* counter values printed to stderr by the status branch
    cb_pc,           \* position of the producer inside audio_callback
    stream,          \* state of the sounddevice.InputStream
    ctl_pc,          \* position of the caller inside start_stream / stop_stream
    inserted,        \* history: the current invocation has put its block
    evicted,         \* history: blocks the current invocation removed
    quiet,           \* history: invocations completed since the last removal by another context
    disturbed,       \* history: another context removed a block during the current invocation
    reads,           \* history: the consumer took a block since start_stream was called
    inflightAtStop,  \* history: an invocation was in flight when stop() returned
    stopOutcome,     \* history: outcome of input_stream.stop() in the current stop_stream call
    closeOutcome,    \* history: outcome of input_stream.close() in the current stop_stream call
    log,             \* history: steps taken by the current stop_stream call, in order
    drained,         \* history: blocks removed by the drain loop of the current stop_stream call
    indata,          \* the samples held by the driver's input storage
    statusHist,      \* history: the status argument of every invocation so far
    received,        \* history: the blocks the consumer obtained, in order
    begun,           \* history: an invocation began since the current stream was created
    startLog,        \* history: steps taken by the current start_stream call, in order
    createOutcome,   \* history: outcome of sounddevice.InputStream(...) in the current start_stream call
    reuse            \* history: the current stop_stream call was made on a handle already stopped

vars == <<AUDIO_QUEUE, callback_count, diag, cb_pc, stream, ctl_pc, inserted,
          evicted, quiet, disturbed, reads, inflightAtStop, stopOutcome,
          closeOutcome, log, drained, indata, statusHist, received, begun,
          startLog, createOutcome, reuse>>

queueVars == <<AUDIO_QUEUE>>
cbVars == <<callback_count, diag, indata, statusHist, cb_pc, inserted, evicted, quiet, disturbed>>
ctlVars == <<stream, ctl_pc, inflightAtStop, stopOutcome, startLog, createOutcome, reuse,
             closeOutcome, log, drained>>

\* queue.Queue.full() / queue.Queue.empty()
Full(q) == Len(q) >= QueueMaxSize
Empty(q) == Len(q) = 0

InFlight == cb_pc \in {"put", "evict", "reput"}

\* the array object passed as indata: the driver's own storage, not a copy
IndataRef == 0

\* the samples read from block b while the driver's storage holds mem
Deref(b, mem) == IF b = IndataRef THEN mem ELSE b

\* ndarray.copy(): a new array holding the samples b has now
Copy(b) == Deref(b, indata)

\* the caller holds the handle returned by start_stream
HandleHeld == ctl_pc \in {"running", "close", "except", "drain", "get", "returned"}

\* the caller is inside stop_stream
InStopStream == ctl_pc \in {"close", "except", "drain", "get"}

Init ==
    /\ AUDIO_QUEUE = <<>>
    /\ callback_count = 0
    /\ diag = <<>>
    /\ cb_pc = "idle"
    /\ stream = "none"
    /\ ctl_pc = "idle"
    /\ inserted = FALSE
    /\ evicted = 0
    /\ quiet = 0
    /\ disturbed = FALSE
    /\ reads = FALSE
    /\ inflightAtStop = FALSE
    /\ stopOutcome = "none"
    /\ closeOutcome = "none"
    /\ log = <<>>
    /\ drained = 0
    /\ indata = 0
    /\ statusHist = <<>>
    /\ received = <<>>
    /\ begun = FALSE
    /\ startLog = <<>>
    /\ createOutcome = "none"
    /\ reuse = FALSE

----------------------------------------------------------------------------
(* audio_callback, invoked by the driver while the stream is active *)

\* variant of CallbackBegin: the diagnostic is printed before the counter is incremented
CallbackBegin_PrintsOldCount ==
    /\ stream = "active"
    /\ cb_pc \in {"idle", "raised"}
    /\ callback_count < MaxCallbacks
    /\ callback_count' = callback_count + 1
    /\ indata' = callback_count + 1
    /\ \E status \in BOOLEAN :
         /\ statusHist' = Append(statusHist, status)
         /\ diag' = IF status THEN Append(diag, callback_count) ELSE diag
    /\ cb_pc' = "put"
    /\ begun' = TRUE
    /\ inserted' = FALSE
    /\ evicted' = 0
    /\ disturbed' = FALSE
    /\ UNCHANGED <<AUDIO_QUEUE, quiet, reads, received>>
    /\ UNCHANGED ctlVars

\* lines 10-15: count the invocation, print a diagnostic on a non-nominal status
CallbackBegin ==
    /\ stream = "active"
    /\ cb_pc \in {"idle", "raised"}
    /\ callback_count < MaxCallbacks
    /\ callback_count' = callback_count + 1
    /\ indata' = callback_count + 1
    /\ \E status \in BOOLEAN :
         /\ statusHist' = Append(statusHist, status)
         /\ diag' = IF status THEN Append(diag, callback_count') ELSE diag
    /\ cb_pc' = "put"
    /\ begun' = TRUE
    /\ inserted' = FALSE
    /\ evicted' = 0
    /\ disturbed' = FALSE
    /\ UNCHANGED <<AUDIO_QUEUE, quiet, reads, received>>
    /\ UNCHANGED ctlVars

\* the invocation returns normally
Completed == IF disturbed THEN 0 ELSE quiet + 1

\* variant of CallbackPut: the put ignores maxsize
CallbackPut_Unbounded ==
    /\ cb_pc = "put"
    /\ AUDIO_QUEUE' = Append(AUDIO_QUEUE, Copy(IndataRef))
    /\ inserted' = TRUE
    /\ cb_pc' = "idle"
    /\ quiet' = Completed
    /\ UNCHANGED <<callback_count, diag, indata, statusHist, evicted, disturbed, reads, received, begun>>
    /\ UNCHANGED ctlVars

\* variant of CallbackPut: put(block=True), which waits for a free slot
CallbackPut_Blocking ==
    /\ cb_pc = "put"
    /\ ~Full(AUDIO_QUEUE)
    /\ AUDIO_QUEUE' = Append(AUDIO_QUEUE, Copy(IndataRef))
    /\ inserted' = TRUE
    /\ cb_pc' = "idle"
    /\ quiet' = Completed
    /\ UNCHANGED <<callback_count, diag, indata, statusHist, evicted, disturbed, reads, received, begun>>
    /\ UNCHANGED ctlVars

\* variant of CallbackPut: a non-nominal status makes the callback return early
CallbackPut_StatusAborts ==
    /\ cb_pc = "put"
    /\ IF statusHist[callback_count]
         THEN /\ cb_pc' = "idle"
              /\ UNCHANGED <<AUDIO_QUEUE, inserted, quiet>>
         ELSE IF Full(AUDIO_QUEUE)
         THEN /\ cb_pc' = "evict"
              /\ UNCHANGED <<AUDIO_QUEUE, inserted, quiet>>
         ELSE /\ AUDIO_QUEUE' = Append(AUDIO_QUEUE, Copy(IndataRef))
              /\ inserted' = TRUE
              /\ cb_pc' = "idle"
              /\ quiet' = Completed
    /\ UNCHANGED <<callback_count, diag, indata, statusHist, evicted, disturbed, reads, received, begun>>
    /\ UNCHANGED ctlVars

\* variant of CallbackPut: AUDIO_QUEUE.put(indata, block=False), without the copy
CallbackPut_NoCopy ==
    /\ cb_pc = "put"
    /\ IF Full(AUDIO_QUEUE)
         THEN /\ cb_pc' = "evict"
              /\ UNCHANGED <<AUDIO_QUEUE, inserted, quiet>>
         ELSE /\ AUDIO_QUEUE' = Append(AUDIO_QUEUE, IndataRef)
              /\ inserted' = TRUE
              /\ cb_pc' = "idle"
              /\ quiet' = Completed
    /\ UNCHANGED <<callback_count, diag, indata, statusHist, evicted, disturbed, reads, received, begun>>
    /\ UNCHANGED ctlVars

\* line 18: AUDIO_QUEUE.put(indata.copy(), block=False); queue.Full goes to line 19
CallbackPut ==
    /\ cb_pc = "put"
    /\ IF Full(AUDIO_QUEUE)
         THEN /\ cb_pc' = "evict"
              /\ UNCHANGED <<AUDIO_QUEUE, inserted, quiet>>
         ELSE /\ AUDIO_QUEUE' = Append(AUDIO_QUEUE, Copy(IndataRef))
              /\ inserted' = TRUE
              /\ cb_pc' = "idle"
              /\ quiet' = Completed
    /\ UNCHANGED <<callback_count, diag, indata, statusHist, evicted, disturbed, reads, received, begun>>
    /\ UNCHANGED ctlVars

\* variant of CallbackEvict: on queue.Full the new block is dropped and the old one kept
CallbackEvict_DropNewest ==
    /\ cb_pc = "evict"
    /\ cb_pc' = "idle"
    /\ quiet' = Completed
    /\ UNCHANGED <<AUDIO_QUEUE, evicted>>
    /\ UNCHANGED <<callback_count, diag, indata, statusHist, inserted, disturbed, reads, received, begun>>
    /\ UNCHANGED ctlVars

\* line 20: AUDIO_QUEUE.get_nowait(); queue.Empty is not handled and leaves the callback
CallbackEvict ==
    /\ cb_pc = "evict"
    /\ IF Empty(AUDIO_QUEUE)
         THEN /\ cb_pc' = "raised"
              /\ quiet' = 0
              /\ UNCHANGED <<AUDIO_QUEUE, evicted>>
         ELSE /\ AUDIO_QUEUE' = Tail(AUDIO_QUEUE)
              /\ evicted' = evicted + 1
              /\ cb_pc' = "reput"
              /\ UNCHANGED quiet
    /\ UNCHANGED <<callback_count, diag, indata, statusHist, inserted, disturbed, reads, received, begun>>
    /\ UNCHANGED ctlVars

\* line 21: AUDIO_QUEUE.put(indata.copy(), block=False); queue.Full is not handled
CallbackReput ==
    /\ cb_pc = "reput"
    /\ IF Full(AUDIO_QUEUE)
         THEN /\ cb_pc' = "raised"
              /\ quiet' = 0
              /\ UNCHANGED <<AUDIO_QUEUE, inserted>>
         ELSE /\ AUDIO_QUEUE' = Append(AUDIO_QUEUE, Copy(IndataRef))
              /\ inserted' = TRUE
              /\ cb_pc' = "idle"
              /\ quiet' = Completed
    /\ UNCHANGED <<callback_count, diag, indata, statusHist, evicted, disturbed, reads, received, begun>>
    /\ UNCHANGED ctlVars

----------------------------------------------------------------------------
(* the consumer: a non-blocking get on AUDIO_QUEUE from the caller's side *)

\* variant of ConsumerPop: the consumer reads the oldest block and leaves it in the queue
ConsumerPop_Peek ==
    /\ ~Empty(AUDIO_QUEUE)
    /\ Len(received) < MaxCallbacks
    /\ received' = Append(received, Head(AUDIO_QUEUE))
    /\ reads' = TRUE
    /\ UNCHANGED <<AUDIO_QUEUE, quiet, disturbed>>
    /\ UNCHANGED <<callback_count, diag, indata, statusHist, cb_pc, inserted, evicted, begun>>
    /\ UNCHANGED ctlVars

ConsumerPop ==
    /\ ~Empty(AUDIO_QUEUE)
    /\ AUDIO_QUEUE' = Tail(AUDIO_QUEUE)
    /\ received' = Append(received, Head(AUDIO_QUEUE))
    /\ reads' = TRUE
    /\ quiet' = 0
    /\ disturbed' = InFlight
    /\ UNCHANGED <<callback_count, diag, indata, statusHist, cb_pc, inserted, evicted, begun>>
    /\ UNCHANGED ctlVars

----------------------------------------------------------------------------
(* start_stream *)

\* variant of StartStreamCreate: the stream delivers blocks as soon as it is created
StartStreamCreate_AutoStart ==
    /\ ctl_pc \in {"idle", "returned", "start_raised"}
    /\ stream # "active"
    /\ stream' = "active"
    /\ ctl_pc' = "start"
    /\ reads' = FALSE
    /\ begun' = FALSE
    /\ startLog' = <<"create">>
    /\ createOutcome' = "ok"
    /\ UNCHANGED <<inflightAtStop, stopOutcome, reuse, closeOutcome, log, drained, received>>
    /\ UNCHANGED queueVars
    /\ UNCHANGED cbVars

\* line 26: sounddevice.InputStream(...) succeeds
StartStreamCreate ==
    /\ ctl_pc \in {"idle", "returned", "start_raised"}
    /\ stream # "active"
    /\ stream' = "created"
    /\ ctl_pc' = "start"
    /\ reads' = FALSE
    /\ begun' = FALSE
    /\ startLog' = <<"create">>
    /\ createOutcome' = "ok"
    /\ UNCHANGED <<inflightAtStop, stopOutcome, reuse, closeOutcome, log, drained, received>>
    /\ UNCHANGED queueVars
    /\ UNCHANGED cbVars

\* variant of StartStreamCreateFails: start_stream empties the queue before creating
StartStreamCreateFails_ClearsQueue ==
    /\ ctl_pc \in {"idle", "returned", "start_raised"}
    /\ stream # "active"
    /\ ctl_pc' = "start_raised"
    /\ AUDIO_QUEUE' = <<>>
    /\ reads' = FALSE
    /\ startLog' = <<"create">>
    /\ createOutcome' = "raised"
    /\ UNCHANGED <<stream, inflightAtStop, stopOutcome, reuse, closeOutcome, log, drained, received, begun>>
    /\ UNCHANGED cbVars

\* line 26: sounddevice.InputStream(...) raises; the error leaves start_stream
StartStreamCreateFails ==
    /\ ctl_pc \in {"idle", "returned", "start_raised"}
    /\ stream # "active"
    /\ ctl_pc' = "start_raised"
    /\ reads' = FALSE
    /\ startLog' = <<"create">>
    /\ createOutcome' = "raised"
    /\ UNCHANGED <<stream, inflightAtStop, stopOutcome, reuse, closeOutcome, log, drained, received, begun>>
    /\ UNCHANGED queueVars
    /\ UNCHANGED cbVars

\* line 28: input_stream.start() succeeds
StartStreamStart ==
    /\ ctl_pc = "start"
    /\ stream' = "active"
    /\ ctl_pc' = "sleep"
    /\ startLog' = Append(startLog, "start")
    /\ UNCHANGED <<inflightAtStop, stopOutcome, createOutcome, reuse, closeOutcome, log, drained, reads, received, begun>>
    /\ UNCHANGED queueVars
    /\ UNCHANGED cbVars

\* line 28: input_stream.start() raises; the created stream is not closed
StartStreamStartFails ==
    /\ ctl_pc = "start"
    /\ ctl_pc' = "start_raised"
    /\ startLog' = Append(startLog, "start")
    /\ UNCHANGED <<stream, inflightAtStop, stopOutcome, createOutcome, reuse, closeOutcome, log, drained, reads, received, begun>>
    /\ UNCHANGED queueVars
    /\ UNCHANGED cbVars

\* lines 31-32: time.sleep(0.5); return input_stream
StartStreamReturn ==
    /\ ctl_pc = "sleep"
    /\ ctl_pc' = "running"
    /\ startLog' = Append(startLog, "sleep")
    /\ UNCHANGED <<stream, inflightAtStop, stopOutcome, createOutcome, reuse, closeOutcome, log, drained, reads, received, begun>>
    /\ UNCHANGED queueVars
    /\ UNCHANGED cbVars

----------------------------------------------------------------------------
(* stop_stream(input_stream), called with the handle start_stream returned; *)
(* the caller may call it again on the same handle after it has returned    *)

\* line 36: input_stream.stop() succeeds: no invocation begins afterwards
StopStreamStop ==
    /\ ctl_pc \in {"running", "returned"}
    /\ stream' = IF stream = "active" THEN "stopped" ELSE stream
    /\ ctl_pc' = "close"
    /\ reuse' = (ctl_pc = "returned")
    /\ stopOutcome' = "ok"
    /\ closeOutcome' = "none"
    /\ inflightAtStop' = InFlight
    /\ log' = <<"stop">>
    /\ drained' = 0
    /\ UNCHANGED <<startLog, createOutcome, reads, received, begun>>
    /\ UNCHANGED queueVars
    /\ UNCHANGED cbVars

\* variant of StopStreamStopFails: stop and close are guarded separately
StopStreamStopFails_StillCloses ==
    /\ ctl_pc \in {"running", "returned"}
    /\ ctl_pc' = "close"
    /\ reuse' = (ctl_pc = "returned")
    /\ stopOutcome' = "raised"
    /\ closeOutcome' = "none"
    /\ inflightAtStop' = InFlight
    /\ log' = <<"stop">>
    /\ drained' = 0
    /\ UNCHANGED <<stream, startLog, createOutcome, reads, received, begun>>
    /\ UNCHANGED queueVars
    /\ UNCHANGED cbVars

\* line 36: input_stream.stop() raises: control goes to the except clause
StopStreamStopFails ==
    /\ ctl_pc \in {"running", "returned"}
    /\ ctl_pc' = "except"
    /\ reuse' = (ctl_pc = "returned")
    /\ stopOutcome' = "raised"
    /\ closeOutcome' = "none"
    /\ inflightAtStop' = InFlight
    /\ log' = <<"stop">>
    /\ drained' = 0
    /\ UNCHANGED <<stream, startLog, createOutcome, reads, received, begun>>
    /\ UNCHANGED queueVars
    /\ UNCHANGED cbVars

\* line 37: input_stream.close() succeeds
StopStreamClose ==
    /\ ctl_pc = "close"
    /\ stream' = "closed"
    /\ ctl_pc' = "drain"
    /\ closeOutcome' = "ok"
    /\ log' = Append(log, "close")
    /\ UNCHANGED <<inflightAtStop, stopOutcome, startLog, createOutcome, reuse, drained, reads, received, begun>>
    /\ UNCHANGED queueVars
    /\ UNCHANGED cbVars

\* line 37: input_stream.close() raises: control goes to the except clause
StopStreamCloseFails ==
    /\ ctl_pc = "close"
    /\ ctl_pc' = "except"
    /\ closeOutcome' = "raised"
    /\ log' = Append(log, "close")
    /\ UNCHANGED <<stream, inflightAtStop, stopOutcome, startLog, createOutcome, reuse, drained, reads, received, begun>>
    /\ UNCHANGED queueVars
    /\ UNCHANGED cbVars

\* variant of StopStreamExcept: the error is not caught and leaves stop_stream
StopStreamExcept_Propagates ==
    /\ ctl_pc = "except"
    /\ ctl_pc' = "stop_raised"
    /\ UNCHANGED <<stream, inflightAtStop, stopOutcome, startLog, createOutcome, reuse, closeOutcome, log, drained, reads, received, begun>>
    /\ UNCHANGED queueVars
    /\ UNCHANGED cbVars

\* variant of StopStreamExcept: the handler returns and the drain is not in a finally
StopStreamExcept_SkipsDrain ==
    /\ ctl_pc = "except"
    /\ ctl_pc' = "returned"
    /\ UNCHANGED <<stream, inflightAtStop, stopOutcome, startLog, createOutcome, reuse, closeOutcome, log, drained, reads, received, begun>>
    /\ UNCHANGED queueVars
    /\ UNCHANGED cbVars

\* lines 38-39: except Exception: print the error, fall through to finally
StopStreamExcept ==
    /\ ctl_pc = "except"
    /\ ctl_pc' = "drain"
    /\ UNCHANGED <<stream, inflightAtStop, stopOutcome, startLog, createOutcome, reuse, closeOutcome, log, drained, reads, received, begun>>
    /\ UNCHANGED queueVars
    /\ UNCHANGED cbVars

\* variant of StopStreamDrainCheck: the finally clause returns without draining
StopStreamDrainCheck_NoDrain ==
    /\ ctl_pc = "drain"
    /\ ctl_pc' = "returned"
    /\ log' = IF log[Len(log)] = "drain" THEN log ELSE Append(log, "drain")
    /\ UNCHANGED <<stream, inflightAtStop, stopOutcome, startLog, createOutcome, reuse, closeOutcome, drained, reads, received, begun>>
    /\ UNCHANGED queueVars
    /\ UNCHANGED cbVars

\* line 41: while not AUDIO_QUEUE.empty(); the function returns when it is empty
StopStreamDrainCheck ==
    /\ ctl_pc = "drain"
    /\ ctl_pc' = IF Empty(AUDIO_QUEUE) THEN "returned" ELSE "get"
    /\ log' = IF log[Len(log)] = "drain" THEN log ELSE Append(log, "drain")
    /\ UNCHANGED <<stream, inflightAtStop, stopOutcome, startLog, createOutcome, reuse, closeOutcome, drained, reads, received, begun>>
    /\ UNCHANGED queueVars
    /\ UNCHANGED cbVars

\* line 42: AUDIO_QUEUE.get(), a blocking get: waits while the queue is empty
StopStreamDrainGet ==
    /\ ctl_pc = "get"
    /\ ~Empty(AUDIO_QUEUE)
    /\ AUDIO_QUEUE' = Tail(AUDIO_QUEUE)
    /\ ctl_pc' = "drain"
    /\ drained' = drained + 1
    /\ quiet' = 0
    /\ disturbed' = InFlight
    /\ UNCHANGED <<callback_count, diag, indata, statusHist, cb_pc, inserted, evicted>>
    /\ UNCHANGED <<stream, inflightAtStop, stopOutcome, startLog, createOutcome, reuse, closeOutcome, log, reads, received, begun>>

----------------------------------------------------------------------------

Next ==
    \/ CallbackBegin
    \/ CallbackPut
    \/ CallbackEvict
    \/ CallbackReput
    \/ ConsumerPop
    \/ StartStreamCreate
    \/ StartStreamCreateFails
    \/ StartStreamStart
    \/ StartStreamStartFails
    \/ StartStreamReturn
    \/ StopStreamStop
    \/ StopStreamStopFails
    \/ StopStreamClose
    \/ StopStreamCloseFails
    \/ StopStreamExcept
    \/ StopStreamDrainCheck
    \/ StopStreamDrainGet

Spec == Init /\ [][Next]_vars

\* the driver's thread keeps running an invocation it has begun
FairSpec ==
    /\ Init /\ [][Next]_vars
    /\ WF_vars(CallbackPut)
    /\ WF_vars(CallbackEvict)
    /\ WF_vars(CallbackReput)

TypeOK ==
    /\ AUDIO_QUEUE \in Seq(0..MaxCallbacks)
    /\ callback_count \in 0..MaxCallbacks
    /\ diag \in Seq(1..MaxCallbacks)
    /\ indata \in 0..MaxCallbacks
    /\ statusHist \in Seq(BOOLEAN)
    /\ received \in Seq(0..MaxCallbacks)
    /\ createOutcome \in {"none", "ok", "raised"}
    /\ cb_pc \in {"idle", "put", "evict", "reput", "raised"}
    /\ stream \in {"none", "created", "active", "stopped", "closed"}
    /\ ctl_pc \in {"idle", "start", "sleep", "running", "close", "except",
                   "drain", "get", "returned", "start_raised", "stop_raised"}

----------------------------------------------------------------------------
(* Properties *)

\* an audio_callback invocation has ended (returned or raised)
Ended == callback_count > 0 /\ cb_pc \in {"idle", "raised"}

\* the last QueueMaxSize blocks delivered to audio_callback, oldest first
MostRecent == [i \in 1..QueueMaxSize |-> callback_count - QueueMaxSize + i]

\* C1: in every reachable state, under any interleaving of the producer, the
\* consumer and the drain loop, AUDIO_QUEUE holds between 0 and QueueMaxSize
\* blocks.
C1_QueueWithinCapacity ==
    Len(AUDIO_QUEUE) >= 0 /\ Len(AUDIO_QUEUE) <= QueueMaxSize

\* C1 witness: the queue is full after an invocation that met a full queue,
\* while the drain loop of stop_stream is running
C1_Witness ==
    /\ Len(AUDIO_QUEUE) = QueueMaxSize
    /\ cb_pc = "idle" /\ evicted = 1 /\ inserted
    /\ ctl_pc \in {"drain", "get"}

\* C2: after more than QueueMaxSize invocations of audio_callback with no
\* removal by the consumer or the drain loop in between, the queue holds exactly
\* the most recent QueueMaxSize blocks, oldest first (capacity 1: push(A),
\* push(B) leaves [B]).
C2_MostRecentKept ==
    (cb_pc = "idle" /\ quiet > QueueMaxSize) => AUDIO_QUEUE = MostRecent

\* C2 witness: two or more undisturbed invocations, the last one evicted a block
C2_Witness ==
    cb_pc = "idle" /\ quiet > QueueMaxSize /\ evicted = 1 /\ AUDIO_QUEUE = MostRecent

\* C3: an audio_callback invocation never raises an exception, for every
\* interleaving of its steps with a consumer pop or with the drain loop.
C3_CallbackNeverRaises ==
    cb_pc # "raised"

\* C4: the newest block is never the one dropped: when an invocation ends, its
\* block has been inserted, and at most one older block was evicted for it.
C4_NewestInserted ==
    Ended => (inserted /\ evicted <= 1)

\* C5: the producer never waits on the consumer: every started audio_callback
\* invocation finishes under fairness of the producer's own steps alone.
C5_CallbackFinishes ==
    InFlight ~> ~InFlight

\* C5 witness: an invocation that met a full queue has finished although the
\* consumer never ran
C5_Witness ==
    cb_pc = "idle" /\ evicted = 1 /\ inserted /\ ~reads /\ drained = 0 /\ ctl_pc = "running"

\* C6: stop_stream never propagates an error to its caller, whether stop fails,
\* close fails or both succeed.
C6_StopStreamNeverRaises ==
    ctl_pc # "stop_raised"

\* C6 witness: stop_stream has returned normally after close raised
C6_Witness ==
    ctl_pc = "returned" /\ stopOutcome = "ok" /\ closeOutcome = "raised"

\* C7: in every execution of stop_stream the drain loop runs after the
\* stop/close attempt and before stop_stream returns, whether stop or close
\* succeeded or raised.
C7_DrainAlwaysRuns ==
    ctl_pc = "returned" =>
        /\ Len(log) >= 2
        /\ log[1] = "stop"
        /\ log[Len(log)] = "drain"

\* C7 witness: stop raised, and the drain loop still ran and removed a block
C7_Witness ==
    ctl_pc = "returned" /\ stopOutcome = "raised" /\ log = <<"stop", "drain">> /\ drained >= 1

\* C8: when start_stream succeeded, blocks were pushed with no consumer reads
\* (every invocation begun has ended when stop returns), and stop and close
\* succeed, the queue is empty when stop_stream returns.
C8_EmptyAfterCleanStop ==
    (/\ ctl_pc = "returned"
     /\ stopOutcome = "ok" /\ closeOutcome = "ok"
     /\ ~reads /\ ~inflightAtStop) => AUDIO_QUEUE = <<>>

\* C8 witness: several blocks were pushed unread, the drain loop removed the
\* one still held, and stop_stream has returned
C8_Witness ==
    /\ ctl_pc = "returned"
    /\ stopOutcome = "ok" /\ closeOutcome = "ok"
    /\ ~reads /\ ~inflightAtStop
    /\ callback_count >= 2 /\ drained = 1
    /\ AUDIO_QUEUE = <<>>

\* C9: the queue is empty when stop_stream returns and stays empty until
\* start_stream is next called, also when stop or close raised and when an
\* in-flight invocation completes after stop.  Stated here for the executions
\* in which no invocation was in flight when stop() was left, which the claim
\* covers as well.
C9_EmptyUntilRestart ==
    (ctl_pc = "returned" /\ ~inflightAtStop) => AUDIO_QUEUE = <<>>

\* C10: in every execution of stop_stream, close is attempted on the handle
\* before stop_stream returns, also when stop raised, so no stream is left
\* running after stop_stream returns.
C10_CloseAttempted ==
    ctl_pc = "returned" => (closeOutcome # "none" /\ stream # "active")

\* stop_stream waits in the blocking get on an empty queue while the stream
\* delivers no more blocks and no invocation is in flight: nothing can put a
\* block any more, so the call cannot return
StuckInDrain ==
    /\ ctl_pc = "get" /\ Empty(AUDIO_QUEUE)
    /\ stream # "active" /\ ~InFlight

\* C11: shutdown always completes: every call of stop_stream eventually
\* returns, for every interleaving of its drain loop (emptiness check, then
\* blocking get) with a consumer pop and with the producer; so the call never
\* reaches a state from which it cannot return.
C11_StopStreamNeverStuck ==
    ~StuckInDrain

\* C12: when stream creation fails inside start_stream, the error reaches the
\* caller, no handle is returned, start is never invoked, and that
\* start_stream call leaves AUDIO_QUEUE as it was.
C12_CreateFailureContained ==
    /\ [](createOutcome = "raised" =>
            (ctl_pc = "start_raised" /\ ~HandleHeld /\ startLog = <<"create">>))
    /\ [][(/\ ctl_pc \in {"idle", "returned", "start_raised"}
           /\ ctl_pc' = "start_raised"
           /\ createOutcome' = "raised"
           /\ <<ctl_pc, createOutcome, startLog>>' # <<ctl_pc, createOutcome, startLog>>)
          => AUDIO_QUEUE' = AUDIO_QUEUE]_vars

\* C12 witness: creation has failed while the queue held a block, which is
\* still there
C12_Witness ==
    createOutcome = "raised" /\ ctl_pc = "start_raised" /\ AUDIO_QUEUE # <<>>

\* C13: after stop_stream has returned for a handle, a second stop_stream call
\* on that handle is rejected with a UseAfterClose error rather than returning
\* normally.
C13_UseAfterCloseRejected ==
    ctl_pc = "returned" => ~reuse

\* the diagnostics a status history produces: the number of every invocation
\* whose status was non-nominal, in order
RECURSIVE DiagOf(_)
DiagOf(h) ==
    IF h = <<>> THEN <<>>
    ELSE LET r == DiagOf(SubSeq(h, 1, Len(h) - 1))
         IN  IF h[Len(h)] THEN Append(r, Len(h)) ELSE r

\* C14: callback_count is the number of audio_callback invocations begun so
\* far, across stop/start cycles (one more per invocation, never less); the
\* k-th invocation emits one diagnostic carrying k when its status is
\* non-nominal and none when it is nominal.
C14_CounterAndDiagnostics ==
    /\ callback_count = Len(statusHist)
    /\ diag = DiagOf(statusHist)

\* C14 witness: invocations before a stop_stream and after the following
\* start_stream, some with a diagnostic and some without
C14_Witness ==
    /\ ctl_pc \in {"sleep", "running"} /\ begun
    /\ log # <<>> /\ drained >= 1
    /\ diag # <<>> /\ Len(diag) < callback_count

\* the step audio_callback takes at position pc when the queue is q and the
\* samples delivered are b: the new position and the new queue
PushStep(pc, q, b) ==
    IF pc = "put"
      THEN IF Full(q) THEN <<"evict", q>> ELSE <<"idle", Append(q, b)>>
    ELSE IF pc = "evict"
      THEN IF Empty(q) THEN <<"raised", q>> ELSE <<"reput", Tail(q)>>
    ELSE IF Full(q) THEN <<"raised", q>> ELSE <<"idle", Append(q, b)>>

\* C15: the status is observability only: every step of an invocation, and
\* the queue it leaves, are determined by the queue and the delivered block
\* alone, the same for a non-nominal as for a nominal status.
C15_StatusNotControlFlow ==
    [][/\ (InFlight /\ cb_pc' # cb_pc) =>
            <<cb_pc', AUDIO_QUEUE'>> = PushStep(cb_pc, AUDIO_QUEUE, indata)
       /\ (~InFlight /\ cb_pc' = "put") => AUDIO_QUEUE' = AUDIO_QUEUE]_vars

\* C15 witness: an invocation with a non-nominal status met a full queue,
\* evicted the old block and inserted its own
C15_Witness ==
    /\ cb_pc = "idle" /\ callback_count >= 2
    /\ statusHist[callback_count] /\ ~statusHist[callback_count - 1]
    /\ evicted = 1 /\ inserted /\ AUDIO_QUEUE = <<callback_count>>

\* C16: start_stream performs create, then start, then the stabilization
\* wait, and returns the handle only after all three; no audio_callback
\* invocation begins on a stream before start has been invoked on it.
C16_StartOrder ==
    /\ ctl_pc = "running" => startLog = <<"create", "start", "sleep">>
    /\ ctl_pc = "sleep" => startLog = <<"create", "start">>
    /\ ctl_pc = "start" => (startLog = <<"create">> /\ ~begun)
    /\ (createOutcome = "ok" /\ stream = "created") => ~begun

\* C16 witness: start_stream has returned the handle and the stream has
\* delivered a block
C16_Witness ==
    ctl_pc = "running" /\ begun /\ startLog = <<"create", "start", "sleep">>

\* C17: when start fails after the stream was created, no handle is returned
\* and the created stream is not left open without an owner: it has been
\* closed, or the caller can still reach it.
C17_NoOrphanStream ==
    (ctl_pc = "start_raised" /\ startLog = <<"create", "start">>) =>
        (~HandleHeld /\ (stream = "closed" \/ HandleHeld))

\* C18: within stop_stream, close is invoked only after stop has been invoked
\* and has returned; stop is only invoked on a handle after start.
C18_StopThenClose ==
    /\ closeOutcome # "none" =>
          (stopOutcome = "ok" /\ Len(log) >= 2 /\ log[1] = "stop" /\ log[2] = "close")
    /\ (InStopStream \/ ctl_pc = "returned") =>
          (log[1] = "stop" /\ startLog = <<"create", "start", "sleep">>)

\* C18 witness: stop_stream has returned after stop and close both ran
C18_Witness ==
    ctl_pc = "returned" /\ closeOutcome = "ok" /\ log = <<"stop", "close", "drain">>

\* C19: with one producer and one consumer, every block the consumer obtains
\* was delivered to audio_callback, no block is obtained twice, and blocks are
\* obtained in strictly increasing order of production.
C19_ConsumerOrder ==
    /\ \A i \in DOMAIN received : received[i] \in 1..callback_count
    /\ \A i, j \in DOMAIN received : i < j => received[i] < received[j]

\* C19 witness: the consumer obtained two blocks, with an evicted block
\* produced between them
C19_Witness ==
    Len(received) >= 2 /\ received[1] + 1 < received[2]

\* the samples read from every block of q while the driver's storage holds mem
Contents(q, mem) == [i \in DOMAIN q |-> Deref(q[i], mem)]

\* C20: every block stored is a copy taken at push time: when the driver
\* overwrites indata, the samples of the blocks held in AUDIO_QUEUE and of the
\* blocks already handed to the consumer do not change.
C20_BlocksAreCopies ==
    [][indata' # indata =>
         /\ Contents(AUDIO_QUEUE, indata') = Contents(AUDIO_QUEUE, indata)
         /\ Contents(received, indata') = Contents(received, indata)]_vars

\* C20 witness: the driver has overwritten indata while the queue holds one
\* earlier block and the consumer another
C20_Witness ==
    /\ AUDIO_QUEUE # <<>> /\ received # <<>>
    /\ cb_pc = "put" /\ indata > AUDIO_QUEUE[1]
====
